---- MODULE Spec2Model ----
(***************************************************************************)
(* Library management service: the books, users and book_transactions      *)
(* tables (src/models.py) and the request handlers of src/routes/*.py.      *)
(*                                                                         *)
(* Spec      : requests are served one at a time: a handler runs from its   *)
(*             first statement to its return in one step, then the session  *)
(*             is closed and the next request is taken.                     *)
(* SpecHistory: Spec with the history of successful deletes and checkouts   *)
(*             recorded, for the properties that speak of earlier requests. *)
(* SpecConc  : the requests of two clients interleave at the handlers'      *)
(*             await points (one step per awaited store round trip).        *)
(*                                                                         *)
(* checkout_date is not modelled: no handler reads it.                      *)
(***************************************************************************)
EXTENDS Integers, Sequences, FiniteSets, TLC

\* ------------------------------------------------------------------ bounds
MaxUsers == 2      \* user rows ever inserted
MaxBooks == 2      \* book rows ever inserted
MaxTx == 2         \* transaction rows ever inserted
MaxRows == 5       \* rows ever inserted, all tables together
MaxPage == 2       \* page numbers requested: 1..MaxPage
MaxPerPage == 2    \* page sizes requested: 1..MaxPerPage

\* ------------------------------------------------------------ input values
None == "None"                       \* a text field that is None / NULL / not sent
Empty == ""                          \* a text field sent empty
Required == "Required"               \* Form(...): the field has no default
NullId == 0                          \* an id that is None / NULL (ids start at 1)
Usernames == {"alice", "bob"}
Titles == {"Dune", "Emma"}
Authors == {"Herbert"}
Statuses == {"checked_out", "checked_in", "lost"}

UserIds == 1..MaxUsers
BookIds == 1..MaxBooks

Clients == {"c1", "c2"}

VARIABLES
    store,       \* the three tables, their counters, and how the store assigns ids
    enforceFK,   \* whether the store behind DATABASE_URL enforces foreign keys
    resp,        \* Spec: the request being answered and its response
    procs,       \* SpecConc: each client's request, its position in the handler, its response
    history      \* SpecHistory: the ids deleted and the pairs checked out so far

vars == <<store, enforceFK, resp, procs, history>>

\* ------------------------------------------------------------------ helpers
Min(a, b) == IF a < b THEN a ELSE b

Max(a, b) == IF a > b THEN a ELSE b

Result(s, kind) == [store |-> s, kind |-> kind]

\* The rows of S in every order: what a SELECT without ORDER BY may return.
RECURSIVE Orders(_)
Orders(S) ==
    IF S = {} THEN {<<>>}
    ELSE UNION {{<<x>> \o rest : rest \in Orders(S \ {x})} : x \in S}

\* ORDER BY id.
RECURSIVE OrderById(_)
OrderById(S) ==
    IF S = {} THEN <<>>
    ELSE LET first == CHOOSE x \in S : \A y \in S : x.id <= y.id
         IN <<first>> \o OrderById(S \ {first})

\* .offset(offset).limit(limit) applied to the rows in the order the store scans them.
OffsetLimit(rows, offset, limit) ==
    [i \in 1..Min(limit, Max(Len(rows) - offset, 0)) |-> rows[offset + i]]

\* total // per_page + (1 if total % per_page > 0 else 0)
TotalPages(total, per_page) ==
    (total \div per_page) + (IF total % per_page > 0 THEN 1 ELSE 0)

\* The id the store gives a new row. A store that keeps a sequence per table
\* (AUTO_INCREMENT, SERIAL) never gives an id twice; a store that takes the
\* highest id in the table plus one (SQLite's INTEGER PRIMARY KEY) gives the id
\* of a deleted last row again. The models declare Integer primary keys and
\* leave the choice to the store behind DATABASE_URL.
HighestId(rows) == IF rows = {} THEN 0 ELSE (CHOOSE x \in rows : \A y \in rows : y.id <= x.id).id

NewId(s, rows, counter) == IF s.reuseIds THEN HighestId(rows) + 1 ELSE counter

NewUserId(s) == NewId(s, s.users, s.nextUserId)

NewBookId(s) == NewId(s, s.books, s.nextBookId)

\* -------------------------------------------------------------------- users
UsersNamed(s, username) == {u \in s.users : u.username = username}

UserWithId(s, id) == {u \in s.users : u.id = id}

\* The users table without the unique index on username.
CommitUserInsertNoUnique(s, username) ==
    Result([s EXCEPT !.users = @ \cup {[id |-> NewUserId(s), username |-> username]},
                     !.nextUserId = @ + 1], "redirect")

\* db.add(User(username)); db.commit(): the INSERT is refused by the unique index.
CommitUserInsert(s, username) ==
    IF UsersNamed(s, username) # {}
    THEN Result(s, "StoreError")
    ELSE Result([s EXCEPT !.users = @ \cup {[id |-> NewUserId(s), username |-> username]},
                          !.nextUserId = @ + 1], "redirect")

\* add_user without its pre-check query.
AddUserUnchecked(s, username) == CommitUserInsert(s, username)

AddUser(s, username) ==
    IF UsersNamed(s, username) # {}
    THEN Result(s, "DuplicateUsername")
    ELSE CommitUserInsert(s, username)

\* The ORM's default for a one-to-many relationship without delete cascade:
\* the children of a deleted parent get their foreign key set to NULL.
NullifyUser(txs, id) ==
    {IF t.user_id = id THEN [t EXCEPT !.user_id = NullId] ELSE t : t \in txs}

NullifyBook(txs, id) ==
    {IF t.book_id = id THEN [t EXCEPT !.book_id = NullId] ELSE t : t \in txs}

DeleteUser(s, id) ==
    IF UserWithId(s, id) = {}
    THEN Result(s, "NotFound")
    ELSE Result([s EXCEPT !.users = @ \ UserWithId(s, id),
                          !.txs = NullifyUser(@, id)], "redirect")

EditUser(s, id) ==
    IF UserWithId(s, id) = {} THEN Result(s, "NotFound") ELSE Result(s, "form")

\* user.username = username; db.commit(): an attribute set to the value the
\* fetched row already had is no change and no UPDATE is sent; otherwise the
\* UPDATE is refused by the unique index.
CommitUserUpdate(s, id, fetched, username) ==
    IF fetched = username
    THEN Result(s, "redirect")
    ELSE IF \E u \in UsersNamed(s, username) : u.id # id
    THEN Result(s, "StoreError")
    ELSE Result([s EXCEPT !.users =
                    {IF u.id = id THEN [u EXCEPT !.username = username] ELSE u : u \in @}],
                "redirect")

\* The username of the row with this id (the row exists).
UsernameOf(s, id) == (CHOOSE u \in s.users : u.id = id).username

\* update_user fetching the target before it looks for another holder of the name.
UpdateUserFetchFirst(s, id, username) ==
    IF UserWithId(s, id) = {}
    THEN Result(s, "NotFound")
    ELSE IF \E u \in UsersNamed(s, username) : u.id # id
    THEN Result(s, "DuplicateUsername")
    ELSE CommitUserUpdate(s, id, UsernameOf(s, id), username)

UpdateUser(s, id, username) ==
    IF \E u \in UsersNamed(s, username) : u.id # id
    THEN Result(s, "DuplicateUsername")
    ELSE IF UserWithId(s, id) = {}
    THEN Result(s, "NotFound")
    ELSE CommitUserUpdate(s, id, UsernameOf(s, id), username)

\* -------------------------------------------------------------------- books
BookWithId(s, id) == {b \in s.books : b.id = id}

\* db.add(Book(title, author)); db.commit(): NOT NULL columns refuse None.
CommitBookInsert(s, title, author) ==
    IF title = None \/ author = None
    THEN Result(s, "StoreError")
    ELSE Result([s EXCEPT !.books = @ \cup {[id |-> NewBookId(s), title |-> title,
                                             author |-> author]},
                          !.nextBookId = @ + 1], "redirect")

\* add_book that inserts nothing when the catalog holds the title and author.
AddBookDeduplicated(s, title, author) ==
    IF \E b \in s.books : b.title = title /\ b.author = author
    THEN Result(s, "redirect")
    ELSE CommitBookInsert(s, title, author)

AddBook(s, title, author) == CommitBookInsert(s, title, author)

DeleteBook(s, id) ==
    IF BookWithId(s, id) = {}
    THEN Result(s, "NotFound")
    ELSE Result([s EXCEPT !.books = @ \ BookWithId(s, id),
                          !.txs = NullifyBook(@, id)], "redirect")

EditBook(s, id) ==
    IF BookWithId(s, id) = {} THEN Result(s, "NotFound") ELSE Result(s, "form")

UpdateBook(s, id, title, author) ==
    IF BookWithId(s, id) = {}
    THEN Result(s, "NotFound")
    ELSE Result([s EXCEPT !.books =
                    {IF b.id = id THEN [b EXCEPT !.title = title, !.author = author] ELSE b
                        : b \in @}],
                "redirect")

\* ------------------------------------------------------------- transactions
\* The duplicate-checkout query; a book_id of None compares as IS NULL.
ActiveCheckouts(s, user_id, book_id) ==
    {t \in s.txs : t.user_id = user_id /\ t.book_id = book_id /\ t.status = "checked_out"}

\* The book_transactions table with a unique index over the checked_out rows'
\* (user_id, book_id).
CommitTxInsertUniqueCheckout(s, fk, user_id, book_id, status) ==
    IF \/ fk /\ (UserWithId(s, user_id) = {} \/ BookWithId(s, book_id) = {})
       \/ status = "checked_out" /\ ActiveCheckouts(s, user_id, book_id) # {}
    THEN Result(s, "StoreError")
    ELSE Result([s EXCEPT !.txs = @ \cup {[id |-> s.nextTxId, user_id |-> user_id,
                                           book_id |-> book_id, status |-> status]},
                          !.nextTxId = @ + 1], "redirect")

\* db.add(BookTransaction(...)); db.commit(): the INSERT is refused when a
\* foreign key the store enforces names no row.
CommitTxInsert(s, fk, user_id, book_id, status) ==
    IF fk /\ (UserWithId(s, user_id) = {} \/ BookWithId(s, book_id) = {})
    THEN Result(s, "StoreError")
    ELSE Result([s EXCEPT !.txs = @ \cup {[id |-> s.nextTxId, user_id |-> user_id,
                                           book_id |-> book_id, status |-> status]},
                          !.nextTxId = @ + 1], "redirect")

\* checkout without the duplicate-checkout query.
CheckoutUnchecked(s, fk, user_id, book_id) ==
    IF UserWithId(s, user_id) = {} \/ BookWithId(s, book_id) = {}
    THEN Result(s, "NotFound")
    ELSE CommitTxInsert(s, fk, user_id, book_id, "checked_out")

Checkout(s, fk, user_id, book_id) ==
    IF ActiveCheckouts(s, user_id, book_id) # {}
    THEN Result(s, "AlreadyCheckedOut")
    ELSE IF UserWithId(s, user_id) = {} \/ BookWithId(s, book_id) = {}
    THEN Result(s, "NotFound")
    ELSE CommitTxInsert(s, fk, user_id, book_id, "checked_out")

\* checkin that looks the book up by title and author before it inserts one.
CheckinReusingBook(s, fk, user_id, title, author) ==
    LET same == {b \in s.books : b.title = title /\ b.author = author} IN
    IF same # {}
    THEN CommitTxInsert(s, fk, user_id, (CHOOSE b \in same : TRUE).id, "checked_in")
    ELSE LET b == CommitBookInsert(s, title, author) IN
         IF b.kind # "redirect"
         THEN b
         ELSE CommitTxInsert(b.store, fk, user_id, NewBookId(s), "checked_in")

\* The book is committed first; the rollback after a failed transaction insert
\* undoes the second unit of work only.
Checkin(s, fk, user_id, title, author) ==
    LET b == CommitBookInsert(s, title, author) IN
    IF b.kind # "redirect"
    THEN b
    ELSE CommitTxInsert(b.store, fk, user_id, NewBookId(s), "checked_in")

\* add_transaction that records a request of any other status as it came.
AddTransactionAnyStatus(s, fk, user_id, status, book_id, title, author) ==
    IF status = "checked_out" THEN Checkout(s, fk, user_id, book_id)
    ELSE IF status = "checked_in" THEN Checkin(s, fk, user_id, title, author)
    ELSE CommitTxInsert(s, fk, user_id, book_id, status)

AddTransaction(s, fk, user_id, status, book_id, title, author) ==
    IF status = "checked_out" THEN Checkout(s, fk, user_id, book_id)
    ELSE IF status = "checked_in" THEN Checkin(s, fk, user_id, title, author)
    ELSE Result(s, "redirect")

\* ------------------------------------------------------------ form binding
\* The value a handler parameter declared with Form(default) is called with:
\* the framework takes a form field that was not sent, or was sent empty, as
\* missing and passes the default.
FormValueKeepingEmpty(raw, default) == IF raw = None THEN default ELSE raw

FormValue(raw, default) == IF raw = None \/ raw = Empty THEN default ELSE raw

\* title: str = Form(...), author: str = Form(...): a request with a required
\* field missing is answered 422 and the handler is not called.
BindAddBook(s, title, author) ==
    LET t == FormValue(title, Required)
        a == FormValue(author, Required) IN
    IF Required \in {t, a} THEN Result(s, "ValidationError") ELSE AddBook(s, t, a)

BindUpdateBook(s, id, title, author) ==
    LET t == FormValue(title, Required)
        a == FormValue(author, Required) IN
    IF Required \in {t, a} THEN Result(s, "ValidationError") ELSE UpdateBook(s, id, t, a)

\* book_id, title, author: Form(None). user_id and status are always sent.
BindAddTransaction(s, fk, f) ==
    AddTransaction(s, fk, f.user_id, f.status, f.book_id,
                   FormValue(f.title, None), FormValue(f.author, None))

\* ------------------------------------------------------------------ listing
Listing(rows, page, per_page) ==
    [items |-> OffsetLimit(rows, (page - 1) * per_page, per_page),
     total_pages |-> TotalPages(Len(rows), per_page)]

\* select(User).order_by(User.id).offset().limit()
ListUsers(s, page, per_page) == Listing(OrderById(s.users), page, per_page)

\* select(Book).offset().limit(): no ORDER BY, the store picks the scan order.
ListBooks(s, scan, page, per_page) == Listing(scan, page, per_page)

\* select(BookTransaction).offset().limit(): no ORDER BY either.
ListTransactions(s, scan, page, per_page) == Listing(scan, page, per_page)

\* --------------------------------------------------------------- the model
\* The counters count the rows ever inserted into each table, plus one.
InitStore ==
    [users |-> {}, books |-> {}, txs |-> {},
     nextUserId |-> 1, nextBookId |-> 1, nextTxId |-> 1, reuseIds |-> FALSE]

NoRequest == [op |-> "none", kind |-> "none"]

IdleClient == [op |-> "none", pc |-> "idle", kind |-> "none"]

NoHistory == [recording |-> FALSE, deleted_users |-> {}, deleted_books |-> {}, checked_out |-> {}]

\* The tables are empty; the store behind DATABASE_URL may or may not enforce
\* foreign keys and may or may not give a deleted row's id to a new row.
InitProgram ==
    /\ enforceFK \in BOOLEAN
    /\ store \in {[InitStore EXCEPT !.reuseIds = r] : r \in BOOLEAN}
    /\ resp = NoRequest
    /\ procs = [c \in Clients |-> IdleClient]

Init == InitProgram /\ history = NoHistory

InitHistory == InitProgram /\ history = [NoHistory EXCEPT !.recording = TRUE]

\* No interleaved handler deletes a row: the highest id plus one is the
\* counter, and the two ways of assigning ids give the same ids.
InitConc == Init /\ ~store.reuseIds

\* The model stops inserting once a table's counter has passed its bound.
WithinBounds(s) ==
    /\ s.nextUserId <= MaxUsers + 1
    /\ s.nextBookId <= MaxBooks + 1
    /\ s.nextTxId <= MaxTx + 1
    /\ (s.nextUserId - 1) + (s.nextBookId - 1) + (s.nextTxId - 1) <= MaxRows

\* The history after a request: the program keeps none, it is recorded for the
\* properties that speak of "once ... has succeeded". A delete and a checkout
\* succeed when they redirect.
Remember(h, op, arg, kind) ==
    IF ~h.recording \/ kind # "redirect" THEN h
    ELSE IF op = "delete_user" THEN [h EXCEPT !.deleted_users = @ \cup {arg.user_id}]
    ELSE IF op = "delete_book" THEN [h EXCEPT !.deleted_books = @ \cup {arg.book_id}]
    ELSE IF op = "add_transaction" /\ arg.status = "checked_out"
    THEN [h EXCEPT !.checked_out = @ \cup {<<arg.user_id, arg.book_id>>}]
    ELSE h

\* A handler run from its first statement to its return.
Serve(op, arg, r) ==
    /\ resp = NoRequest
    /\ WithinBounds(r.store)
    /\ store' = r.store
    /\ resp' = [op |-> op, arg |-> arg, kind |-> r.kind]
    /\ history' = Remember(history, op, arg, r.kind)
    /\ UNCHANGED <<enforceFK, procs>>

ServeList(op, arg, l) ==
    /\ resp = NoRequest
    /\ resp' = [op |-> op, arg |-> arg, kind |-> "page",
                items |-> l.items, total_pages |-> l.total_pages]
    /\ UNCHANGED <<store, enforceFK, procs, history>>

\* get_db after the yield: nothing is pending, the commit writes nothing and
\* the session is closed.
get_db_close ==
    /\ resp # NoRequest
    /\ resp' = NoRequest
    /\ UNCHANGED <<store, enforceFK, procs, history>>

add_user ==
    /\ resp = NoRequest
    /\ \E username \in Usernames :
           Serve("add_user", [username |-> username], AddUser(store, username))

delete_user ==
    /\ resp = NoRequest
    /\ \E id \in UserIds :
           Serve("delete_user", [user_id |-> id], DeleteUser(store, id))

edit_user ==
    /\ resp = NoRequest
    /\ \E id \in UserIds :
           Serve("edit_user", [user_id |-> id], EditUser(store, id))

update_user ==
    /\ resp = NoRequest
    /\ \E id \in UserIds, username \in Usernames :
           Serve("update_user", [user_id |-> id, username |-> username],
                 UpdateUser(store, id, username))

\* The title and author fields of a submitted book form.
BookForms == [title : Titles \cup {None, Empty}, author : Authors \cup {None, Empty}]

add_book ==
    /\ resp = NoRequest
    /\ \E f \in BookForms :
           Serve("add_book", f, BindAddBook(store, f.title, f.author))

delete_book ==
    /\ resp = NoRequest
    /\ \E id \in BookIds :
           Serve("delete_book", [book_id |-> id], DeleteBook(store, id))

edit_book ==
    /\ resp = NoRequest
    /\ \E id \in BookIds :
           Serve("edit_book", [book_id |-> id], EditBook(store, id))

update_book ==
    /\ resp = NoRequest
    /\ \E id \in BookIds, f \in BookForms :
           Serve("update_book", [book_id |-> id, title |-> f.title, author |-> f.author],
                 BindUpdateBook(store, id, f.title, f.author))

\* The form fields a handler branch does not read are left out (None).
TransactionForms ==
    {f \in [user_id : UserIds, status : Statuses, book_id : BookIds \cup {NullId},
            title : Titles \cup {None, Empty}, author : Authors \cup {None, Empty}] :
        /\ f.status = "checked_out" => f.title = None /\ f.author = None
        /\ f.status = "checked_in" => f.book_id = NullId
        /\ f.status \notin {"checked_out", "checked_in"} =>
              f.book_id = NullId /\ f.title = None /\ f.author = None}

add_transaction ==
    /\ resp = NoRequest
    /\ \E f \in TransactionForms :
           Serve("add_transaction", f, BindAddTransaction(store, enforceFK, f))

list_users ==
    /\ resp = NoRequest
    /\ \E page \in 1..MaxPage, per_page \in 1..MaxPerPage :
           ServeList("list_users", [page |-> page, per_page |-> per_page],
                     ListUsers(store, page, per_page))

list_books ==
    /\ resp = NoRequest
    /\ \E page \in 1..MaxPage, per_page \in 1..MaxPerPage, scan \in Orders(store.books) :
           ServeList("list_books", [page |-> page, per_page |-> per_page],
                     ListBooks(store, scan, page, per_page))

list_transactions ==
    /\ resp = NoRequest
    /\ \E page \in 1..MaxPage, per_page \in 1..MaxPerPage, scan \in Orders(store.txs) :
           ServeList("list_transactions", [page |-> page, per_page |-> per_page],
                     ListTransactions(store, scan, page, per_page))

Next ==
    \/ add_user
    \/ delete_user
    \/ edit_user
    \/ update_user
    \/ add_book
    \/ delete_book
    \/ edit_book
    \/ update_book
    \/ add_transaction
    \/ list_users
    \/ list_books
    \/ list_transactions
    \/ get_db_close

Spec == Init /\ [][Next]_vars

\* The same program with its history recorded.
SpecHistory == InitHistory /\ [][Next]_vars

\* ------------------------------------------------- interleaved requests
\* A client's handler between two awaits: pc names the await it resumes from.
\* Every query reads the rows committed when it runs. Only handlers that never
\* delete a row run here, so a commit never finds its row gone.
Await(c, op, arg, pc, local) ==
    /\ procs' = [procs EXCEPT ![c] = [op |-> op, arg |-> arg, pc |-> pc, local |-> local,
                                      kind |-> "none"]]
    /\ UNCHANGED <<store, enforceFK, resp, history>>

Return(c, op, r) ==
    /\ WithinBounds(r.store)
    /\ store' = r.store
    /\ procs' = [procs EXCEPT ![c] = [op |-> op, pc |-> "done", kind |-> r.kind]]
    /\ history' = Remember(history, op, procs[c].arg, r.kind)
    /\ UNCHANGED <<enforceFK, resp>>

At(c, op, pc) == procs[c].op = op /\ procs[c].pc = pc

\* add_user up to its commit: the pre-check query.
conc_add_user_check(c) ==
    /\ procs[c] = IdleClient
    /\ \E username \in Usernames :
          LET arg == [username |-> username] IN
          IF UsersNamed(store, username) # {}
          THEN Return(c, "add_user", Result(store, "DuplicateUsername"))
          ELSE Await(c, "add_user", arg, "commit", None)

conc_add_user_commit(c) ==
    /\ At(c, "add_user", "commit")
    /\ Return(c, "add_user", CommitUserInsert(store, procs[c].arg.username))

\* update_user: the query for another holder of the name.
conc_update_user_check(c) ==
    /\ procs[c] = IdleClient
    /\ \E id \in UserIds, username \in Usernames :
          LET arg == [user_id |-> id, username |-> username] IN
          IF \E u \in UsersNamed(store, username) : u.id # id
          THEN Return(c, "update_user", Result(store, "DuplicateUsername"))
          ELSE Await(c, "update_user", arg, "fetch", None)

\* update_user: the query for the target row.
conc_update_user_fetch(c) ==
    /\ At(c, "update_user", "fetch")
    /\ IF UserWithId(store, procs[c].arg.user_id) = {}
       THEN Return(c, "update_user", Result(store, "NotFound"))
       ELSE Await(c, "update_user", procs[c].arg, "commit",
                  UsernameOf(store, procs[c].arg.user_id))

conc_update_user_commit(c) ==
    /\ At(c, "update_user", "commit")
    /\ Return(c, "update_user",
              CommitUserUpdate(store, procs[c].arg.user_id, procs[c].local,
                               procs[c].arg.username))

conc_add_book(c) ==
    /\ procs[c] = IdleClient
    /\ \E title \in Titles, author \in Authors :
          Return(c, "add_book",
                 AddBook(store, title, author))

\* add_transaction, checked_out: the duplicate-checkout query.
conc_checkout_check(c) ==
    /\ procs[c] = IdleClient
    /\ \E user_id \in UserIds, book_id \in BookIds :
          LET arg == [user_id |-> user_id, book_id |-> book_id, status |-> "checked_out",
                      title |-> None, author |-> None] IN
          IF ActiveCheckouts(store, user_id, book_id) # {}
          THEN Return(c, "add_transaction", Result(store, "AlreadyCheckedOut"))
          ELSE Await(c, "add_transaction", arg, "fetch_user", None)

\* add_transaction, checked_out: the user query.
conc_checkout_fetch_user(c) ==
    /\ At(c, "add_transaction", "fetch_user")
    /\ Await(c, "add_transaction", procs[c].arg, "fetch_book",
             IF UserWithId(store, procs[c].arg.user_id) = {} THEN "no user" ELSE "user")

\* add_transaction, checked_out: the book query and the not-found test.
conc_checkout_fetch_book(c) ==
    /\ At(c, "add_transaction", "fetch_book")
    /\ IF procs[c].local = "no user" \/ BookWithId(store, procs[c].arg.book_id) = {}
       THEN Return(c, "add_transaction", Result(store, "NotFound"))
       ELSE Await(c, "add_transaction", procs[c].arg, "commit", None)

conc_checkout_commit(c) ==
    /\ At(c, "add_transaction", "commit")
    /\ Return(c, "add_transaction",
              CommitTxInsert(store, enforceFK, procs[c].arg.user_id, procs[c].arg.book_id,
                             "checked_out"))

\* The response is sent and the client's session closed.
conc_close(c) ==
    /\ procs[c].pc = "done"
    /\ procs' = [procs EXCEPT ![c] = IdleClient]
    /\ UNCHANGED <<store, enforceFK, resp, history>>

NextConc ==
    \E c \in Clients :
        \/ conc_add_user_check(c)
        \/ conc_add_user_commit(c)
        \/ conc_update_user_check(c)
        \/ conc_update_user_fetch(c)
        \/ conc_update_user_commit(c)
        \/ conc_add_book(c)
        \/ conc_checkout_check(c)
        \/ conc_checkout_fetch_user(c)
        \/ conc_checkout_fetch_book(c)
        \/ conc_checkout_commit(c)
        \/ conc_close(c)

SpecConc == InitConc /\ [][NextConc]_vars

\* ================================================================== claims
CheckedOut(s) == {t \in s.txs : t.status = "checked_out"}

HeldByOther(s, id, username) == \E u \in UsersNamed(s, username) : u.id # id

\* A client's handler returns from its commit in this step.
Commits(c, op) == At(c, op, "commit") /\ procs'[c].pc = "done"

\* C2: two checkouts of the same (user, book) can both pass the duplicate query
\* before either inserts, and the store refuses neither insert: a client that
\* reached its commit inserts its checked_out row whatever rows the table
\* holds by then (C2_Witness: two checked_out rows of one user and one book).
C2_StoreAdmitsDoubleCheckout ==
    [][\A c \in Clients :
          Commits(c, "add_transaction") =>
              /\ procs'[c].kind = "redirect"
              /\ store'.txs = store.txs \cup
                    {[id |-> store.nextTxId, user_id |-> procs[c].arg.user_id,
                      book_id |-> procs[c].arg.book_id, status |-> "checked_out"]}
              /\ Cardinality(store'.txs) = Cardinality(store.txs) + 1]_vars

C2_Witness ==
    \E t1, t2 \in CheckedOut(store) :
        /\ t1.id # t2.id
        /\ t1.user_id = t2.user_id /\ t1.user_id # NullId
        /\ t1.book_id = t2.book_id /\ t1.book_id # NullId

UniqueUsernames ==
    \A u1, u2 \in store.users : u1.username = u2.username => u1 = u2

\* C3: under any interleaving of add_user and update_user requests no two user
\* rows share a username: a commit that would write a username another row
\* holds by then is refused, answered with an error and leaves the tables as
\* they were; any other commit succeeds.
C3_UsernamesUnique ==
    /\ []UniqueUsernames
    /\ [][\A c \in Clients :
            /\ Commits(c, "add_user") =>
                  IF UsersNamed(store, procs[c].arg.username) # {}
                  THEN procs'[c].kind = "StoreError" /\ store' = store
                  ELSE procs'[c].kind = "redirect"
            /\ Commits(c, "update_user") =>
                  IF /\ procs[c].local # procs[c].arg.username
                     /\ HeldByOther(store, procs[c].arg.user_id, procs[c].arg.username)
                  THEN procs'[c].kind = "StoreError" /\ store' = store
                  ELSE procs'[c].kind = "redirect"]_vars

C3_Witness ==
    /\ UniqueUsernames
    /\ \E c \in Clients :
          /\ procs[c].op = "add_user"
          /\ procs[c].pc = "done"
          /\ procs[c].kind = "StoreError"

ErrorKinds ==
    {"DuplicateUsername", "NotFound", "AlreadyCheckedOut", "StoreError", "ValidationError"}

CheckoutServed == resp.op = "add_transaction" /\ resp.arg.status = "checked_out"

\* C1, as claimed: served one at a time, no two checked_out rows ever share
\* their (user_id, book_id) pair.
C1_Original ==
    \A t1, t2 \in CheckedOut(store) :
        (t1.user_id = t2.user_id /\ t1.book_id = t2.book_id) => t1 = t2

\* C1, amended: served one at a time, no two checked_out rows share a pair of
\* user_id and book_id that are both set (a deleted user or book leaves NULL in
\* its rows, and several rows may share it); and right after a successful
\* checkout(U, B) the same request is answered AlreadyCheckedOut and inserts
\* nothing.
C1_OneActiveCheckoutPerPair ==
    /\ \A t1, t2 \in CheckedOut(store) :
          (/\ t1.user_id # NullId
           /\ t1.book_id # NullId
           /\ t1.user_id = t2.user_id
           /\ t1.book_id = t2.book_id) => t1 = t2
    /\ (CheckoutServed /\ resp.kind = "redirect") =>
          AddTransaction(store, enforceFK, resp.arg.user_id, "checked_out",
                         resp.arg.book_id, None, None)
              = Result(store, "AlreadyCheckedOut")

C1_Witness ==
    /\ CheckoutServed
    /\ resp.kind = "redirect"
    /\ Cardinality(CheckedOut(store)) = 2

\* C4: add_user with a username some user row holds answers DuplicateUsername
\* and leaves every table as it was.
C4_DuplicateUsernameRejected ==
    [][(resp'.op = "add_user" /\ UsersNamed(store, resp'.arg.username) # {})
            => (resp'.kind = "DuplicateUsername" /\ store' = store)]_vars

C4_Witness ==
    /\ resp.op = "add_user"
    /\ resp.kind = "DuplicateUsername"
    /\ UsersNamed(store, resp.arg.username) # {}

\* C5, as claimed: update_user answers DuplicateUsername exactly when another
\* id holds the username, NotFound whenever the target id is absent, changes
\* nothing in both cases, and succeeds for the username the target holds.
C5_Original ==
    [][resp'.op = "update_user" =>
          LET id == resp'.arg.user_id
              username == resp'.arg.username
          IN /\ resp'.kind = "DuplicateUsername" <=> HeldByOther(store, id, username)
             /\ UserWithId(store, id) = {} => resp'.kind = "NotFound"
             /\ resp'.kind \in {"DuplicateUsername", "NotFound"} => store' = store
             /\ [id |-> id, username |-> username] \in store.users
                    => resp'.kind = "redirect"]_vars

\* C5, amended: update_user answers DuplicateUsername exactly when another id
\* holds the username (also when the target id is absent), NotFound exactly
\* when the target id is absent and no user holds the username, changes
\* nothing in both cases, and succeeds for the username the target holds.
C5_UpdateUserErrors ==
    [][resp'.op = "update_user" =>
          LET id == resp'.arg.user_id
              username == resp'.arg.username
          IN /\ resp'.kind = "DuplicateUsername" <=> HeldByOther(store, id, username)
             /\ resp'.kind = "NotFound" <=>
                    (UserWithId(store, id) = {} /\ ~HeldByOther(store, id, username))
             /\ resp'.kind \in {"DuplicateUsername", "NotFound"} => store' = store
             /\ [id |-> id, username |-> username] \in store.users
                    => (resp'.kind = "redirect" /\ store' = store)]_vars

C5_Witness ==
    /\ resp.op = "update_user"
    /\ resp.kind = "DuplicateUsername"
    /\ UserWithId(store, resp.arg.user_id) = {}

\* C6, as claimed: checkout answers NotFound and inserts nothing whenever the
\* user or the book does not exist; a successful checkout inserts exactly one
\* checked_out row, of a user and a book that exist.
C6_Original ==
    [][(resp'.op = "add_transaction" /\ resp'.arg.status = "checked_out") =>
          LET u == resp'.arg.user_id
              b == resp'.arg.book_id
          IN /\ (UserWithId(store, u) = {} \/ BookWithId(store, b) = {})
                    => (resp'.kind = "NotFound" /\ store'.txs = store.txs)
             /\ resp'.kind = "redirect" =>
                    \E t \in store'.txs :
                        /\ t \notin store.txs
                        /\ store'.txs = store.txs \cup {t}
                        /\ t.status = "checked_out"
                        /\ t.user_id = u /\ UserWithId(store', u) # {}
                        /\ t.book_id = b /\ BookWithId(store', b) # {}]_vars

\* C7, as claimed: a request answered with an error leaves the three tables as
\* they were.
C7_Original ==
    [][resp'.kind \in ErrorKinds => store' = store]_vars

CheckinServed == resp.op = "add_transaction" /\ resp.arg.status = "checked_in"

MutationOps ==
    {"add_user", "delete_user", "update_user", "add_book", "delete_book", "update_book",
     "add_transaction"}

\* C9, as claimed: a mutation endpoint answers with the redirect exactly when
\* its mutation was applied: an answer that is no redirect changed nothing,
\* and a redirect of add_transaction inserted exactly one transaction row.
C9_Original ==
    [][resp'.op \in MutationOps =>
          /\ resp'.kind # "redirect" => store' = store
          /\ (resp'.op = "add_transaction" /\ resp'.kind = "redirect") =>
                \E t \in store'.txs : t \notin store.txs /\ store'.txs = store.txs \cup {t}]_vars

\* The smallest k with k * per_page >= total.
Ceil(total, per_page) ==
    CHOOSE k \in 0..total : k * per_page >= total /\ (k = 0 \/ (k - 1) * per_page < total)

Listed(op) ==
    IF op = "list_users" THEN store.users
    ELSE IF op = "list_books" THEN store.books
    ELSE store.txs

\* C10, as claimed: list answers total_pages = ceil(total / per_page) and the
\* rows at insertion positions (page-1)*per_page+1 .. min(page*per_page, total),
\* in insertion order, for users, books and transactions alike.
C10_Original ==
    resp.kind = "page" =>
        LET rows == OrderById(Listed(resp.op))
            total == Len(rows)
            first == (resp.arg.page - 1) * resp.arg.per_page + 1
            last == Min(resp.arg.page * resp.arg.per_page, total)
        IN /\ resp.total_pages = Ceil(total, resp.arg.per_page)
           /\ resp.items = [i \in 1..Max(last - first + 1, 0) |-> rows[first + i - 1]]

\* C11, as claimed: once delete_user(id) or delete_book(id) has succeeded, every
\* later edit, update and delete of that id answers NotFound, whatever was
\* served in between.
C11_Original ==
    [][/\ (/\ resp'.op \in {"edit_user", "update_user", "delete_user"}
           /\ resp'.arg.user_id \in history.deleted_users) => resp'.kind = "NotFound"
       /\ (/\ resp'.op \in {"edit_book", "update_book", "delete_book"}
           /\ resp'.arg.book_id \in history.deleted_books) => resp'.kind = "NotFound"]_vars

AddBookServed == resp.op = "add_book" /\ resp.kind = "redirect"

\* C12: a successful add_book(title, author) adds exactly one book row, with
\* that title and author and an id that no book row holds and no transaction
\* row refers to; every other book row, every user row and every transaction
\* row stays as it was; and list_books then reports ceil((n + 1) / per_page)
\* pages for every page size, n being the number of books before.
C12_AddBookFrame ==
    [][(resp'.op = "add_book" /\ resp'.kind = "redirect") =>
          /\ \E b \in store'.books :
                /\ b \notin store.books
                /\ store'.books = store.books \cup {b}
                /\ b.title = resp'.arg.title
                /\ b.author = resp'.arg.author
                /\ \A old \in store.books : old.id # b.id
                /\ \A old \in store.txs : old.book_id # b.id
          /\ Cardinality(store'.books) = Cardinality(store.books) + 1
          /\ store'.users = store.users
          /\ store'.txs = store.txs
          /\ \A page \in 1..MaxPage, per_page \in 1..MaxPerPage, scan \in Orders(store'.books) :
                ListBooks(store', scan, page, per_page).total_pages
                    = Ceil(Cardinality(store.books) + 1, per_page)]_vars

\* add_book has succeeded for a title and author the catalog already held, with
\* a user and a transaction in the tables.
C12_Witness ==
    /\ AddBookServed
    /\ \E b1, b2 \in store.books :
          b1.id # b2.id /\ b1.title = b2.title /\ b1.author = b2.author
    /\ store.users # {}
    /\ store.txs # {}

Blank == {None, Empty}

\* C13: no book row ever has an empty or missing title or author: an add_book,
\* update_book or checkin request whose title or author is empty or not sent
\* is answered with a validation error or a store error and leaves the books
\* table (and every other table) as it was.
C13_NoBlankBook ==
    /\ [](\A b \in store.books : b.title \notin Blank /\ b.author \notin Blank)
    /\ [][(/\ \/ resp'.op \in {"add_book", "update_book"}
              \/ resp'.op = "add_transaction" /\ resp'.arg.status = "checked_in"
           /\ resp'.arg.title \in Blank \/ resp'.arg.author \in Blank) =>
              /\ resp'.kind \in {"ValidationError", "StoreError"}
              /\ store' = store]_vars

\* A checkin sent with an empty title has been refused by the store while the
\* catalog holds a book.
C13_Witness ==
    /\ resp.op = "add_transaction"
    /\ resp.arg.status = "checked_in"
    /\ resp.arg.title = Empty
    /\ resp.arg.author \notin Blank
    /\ resp.kind = "StoreError"
    /\ store.books # {}

\* Every transaction row is still there after the step, with the status it had.
StatusKept == \A t \in store.txs : \E n \in store'.txs : n.id = t.id /\ n.status = t.status

\* A checkout of a pair that has been checked out before is answered in this step.
CheckoutAgain ==
    /\ resp'.op = "add_transaction"
    /\ resp'.arg.status = "checked_out"
    /\ <<resp'.arg.user_id, resp'.arg.book_id>> \in history.checked_out

\* C14, as claimed: no request changes the status of a transaction row or
\* deletes one, and once a checkout of (U, B) has succeeded every later
\* checkout of (U, B) is answered AlreadyCheckedOut or NotFound.
C14_Original ==
    [][/\ StatusKept
       /\ CheckoutAgain => resp'.kind \in {"AlreadyCheckedOut", "NotFound"}]_vars

TxStatuses == {"checked_out", "checked_in"}

\* C15: every transaction row has status checked_out or checked_in: an
\* add_transaction request with any other status is answered with the redirect
\* and inserts no book row and no transaction row (no table changes).
C15_TwoStatuses ==
    /\ [](\A t \in store.txs : t.status \in TxStatuses)
    /\ [][(resp'.op = "add_transaction" /\ resp'.arg.status \notin TxStatuses) =>
              /\ resp'.kind = "redirect"
              /\ store'.books = store.books
              /\ store'.txs = store.txs
              /\ store' = store]_vars

\* A request with another status has been answered for an existing user while
\* the table holds rows of both statuses.
C15_Witness ==
    /\ resp.op = "add_transaction"
    /\ resp.arg.status \notin TxStatuses
    /\ resp.kind = "redirect"
    /\ UserWithId(store, resp.arg.user_id) # {}
    /\ \E t1, t2 \in store.txs : t1.status = "checked_out" /\ t2.status = "checked_in"
====
